---- MODULE Spec2Model ----
(***************************************************************************)
(* Model of savesync.py: hosts reconcile their local emulator save trees   *)
(* with one central NAS tree (push, then pull, per save source); and of    *)
(* restore_saves.py: a directory of the NAS tree is copied back over the   *)
(* local one, which is moved aside first.                                  *)
(*                                                                         *)
(* A file is a record [content, mtime, readable].  Contents are small      *)
(* naturals: 0 is the empty content a file has right after open(.., "wb"), *)
(* k > 0 is what the k-th user modification wrote.  A path is a record     *)
(* [base, sfx]: the file name and the ".conflict-<host>-<time>" segments   *)
(* appended to it.  The clock is in whole seconds.                         *)
(***************************************************************************)
EXTENDS Integers, Sequences, FiniteSets, TLC

VARIABLES
    cfg,        \* the world: save sources per host, limits of the environment,
                \* whether time passes noticeably while a process runs
    clock,      \* wall clock, seconds
    fs,         \* fs[tree] : path -> file, the regular files of each tree
    dirs,       \* the directories that exist
    pc,         \* position of the running process ("idle": none running)
    host,       \* the host whose process is running
    dry_run,    \* args.dry_run
    queue,      \* main: save sources not yet visited by the for loop
    source,     \* main: the save source of the current iteration
    direction,  \* "push" (sync_source_to_central) or "pull"
    todo,       \* files the rglob of the current pass has still to yield
    copied,     \* the pass's copied counter
    src,        \* copy_with_smart_conflict: src
    dst,        \* copy_with_smart_conflict: dst
    ops,        \* copy_file_nfs_safe calls the current decision still makes
    opened,     \* the first of ops has opened (truncated) its target
    dec,        \* the decision reported for the current file
    exitcode,   \* status the process returns (0 while none is returning)
    pre,        \* history: fs and dirs when the running process started
    log,        \* history: decisions the running process has made
    etime,      \* history: time of each user modification
    backups,    \* history: conflict backups written, with their content
    quiet,      \* history: host whose live run completed, nothing done since
    second,     \* history: the running process is such a host's next run
    used        \* history: how often each bounded environment step was taken

vars == <<cfg, clock, fs, dirs, pc, host, dry_run, queue, source, direction,
          todo, copied, src, dst, ops, opened, dec, exitcode, pre, log, etime,
          backups, quiet, second, used>>

\* How much clock skew (seconds) is tolerated before "newer timestamp wins".
SKEW_ALLOWANCE_SECONDS == 300

\* Bounds of the model of two hosts: clock steps, user modifications, live runs.
MaxTicks == 2
MaxEdits == 2
MaxRuns == 2

\* Bounds of the model of one host whose runs follow each other closely.
BurstTicks == 1
BurstEdits == 3
BurstRuns == 4

\* Bounds of the model of one host whose process can be stopped.
StopTicks == 1
StopEdits == 2
StopRuns == 2
MaxKills == 1

\* Bounds of the model of one host with unreadable files.
FaultEdits == 2
FaultRuns == 2
MaxFaults == 1

\* Bounds of the model of one host with two save sources whose directories
\* come and go.
EndpointEdits == 2
EndpointRuns == 2
MaxUnmounts == 1

\* Bounds of the model of one host whose save directory can disappear.
VanishTicks == 1
VanishEdits == 2
VanishRuns == 2
MaxVanish == 1

\* Bounds of the model of one host that restores from the NAS.
RestoreTicks == 1
RestoreEdits == 2
RestoreRuns == 1
MaxRestores == 2
MaxLost == 1

\* The steps by which the clock advances.
TickSizes == {SKEW_ALLOWANCE_SECONDS, SKEW_ALLOWANCE_SECONDS + 1}

Abs(x) == IF x < 0 THEN -x ELSE x

NAS == "nas"
NoHost == "none"

\* get_central_nas_root(): the central directory
NasRoot == <<NAS, "">>

\* central_root / source.name
CentralTree(name) == <<NAS, name>>

\* SaveSource(name, path) of a host
LocalTree(h, name) == <<h, name>>

Hosts == DOMAIN cfg.sources

Names == UNION {{cfg.sources[h][i] : i \in DOMAIN cfg.sources[h]} : h \in Hosts}

Trees == {<<l, n>> : l \in Hosts \cup {NAS}, n \in Names}

\* The save files the users of the model write.
BasePaths == {[base |-> "save1.bin", sfx |-> <<>>]}

NoPath == [base |-> "", sfx |-> <<>>]
NoLoc == [tree |-> <<NoHost, "">>, path |-> NoPath]
NoDec == [d |-> "None", exists |-> FALSE, same |-> FALSE, dt |-> 0,
          old |-> 0, new |-> 0, bk |-> NoPath]
NoPre == [fs |-> <<>>, dirs |-> {}]

EmptyTree == [p \in {} |-> 0]

Exists(l) == l.path \in DOMAIN fs[l.tree]
File(l) == fs[l.tree][l.path]

\* platform.node() or "unknownhost"
hostname(h) == IF h = "" THEN "unknownhost" ELSE h

\* dst.with_suffix(dst.suffix + f".conflict-{hostname}-{int(time.time())}")
conflict_path(p, hn, t) == [p EXCEPT !.sfx = Append(@, <<hn, t>>)]

\* sha256_of_file: equal digests exactly for equal contents
sha256_of_file_Blind(f) == <<"sha256", 0>>
sha256_of_file(f) == <<"sha256", f.content>>

\* get_save_sources(): the configured sources whose directory exists
get_save_sources_Unfiltered(h) == cfg.sources[h]
get_save_sources(h) ==
    SelectSeq(cfg.sources[h], LAMBDA n : LocalTree(h, n) \in dirs)

\* abs(dt) > SKEW_ALLOWANCE_SECONDS
ClearNewest_Inclusive(dt) == Abs(dt) >= SKEW_ALLOWANCE_SECONDS
ClearNewest(dt) == Abs(dt) > SKEW_ALLOWANCE_SECONDS

\* dt > 0: the source is the newer side
SourceNewer_Inverted(dt) == dt < 0
SourceNewer(dt) == dt > 0

\* The decision of copy_with_smart_conflict for a regular source file.
Decide_TimestampFirst(dst_exists, src_hash, dst_hash, dt) ==
    IF ~dst_exists THEN "CopyAsNew"
    ELSE IF ClearNewest(dt)
         THEN IF SourceNewer(dt) THEN "CopyBecauseNewer" ELSE "Skip"
    ELSE IF src_hash = dst_hash THEN "Skip"
    ELSE "CopyAsConflict"
Decide(dst_exists, src_hash, dst_hash, dt) ==
    IF ~dst_exists THEN "CopyAsNew"
    ELSE IF src_hash = dst_hash THEN "Skip"
    ELSE IF ClearNewest(dt)
         THEN IF SourceNewer(dt) THEN "CopyBecauseNewer" ELSE "Skip"
    ELSE "CopyAsConflict"

\* The copy_file_nfs_safe calls of a decision, in program order.
Copy(from, to) == [from |-> from, to |-> to]
ConflictCopies_OverwriteFirst(s, d, bk) ==
    <<Copy(s, d), Copy(d, [d EXCEPT !.path = bk])>>
ConflictCopies(s, d, bk) ==
    <<Copy(d, [d EXCEPT !.path = bk]), Copy(s, d)>>

Plan_BackupBesideSource(decision, s, d, bk) ==
    CASE decision = "CopyAsNew" -> <<Copy(s, d)>>
      [] decision = "CopyBecauseNewer" -> <<Copy(s, d)>>
      [] decision = "CopyAsConflict" ->
             <<Copy(d, [s EXCEPT !.path = bk]), Copy(s, d)>>
      [] OTHER -> <<>>
Plan(decision, s, d, bk) ==
    CASE decision = "CopyAsNew" -> <<Copy(s, d)>>
      [] decision = "CopyBecauseNewer" -> <<Copy(s, d)>>
      [] decision = "CopyAsConflict" -> ConflictCopies(s, d, bk)
      [] OTHER -> <<>>

\* f with path p bound to file x (p added when absent)
Bind(f, p, x) == [q \in DOMAIN f \cup {p} |-> IF q = p THEN x ELSE f[q]]

\* open(dst, "wb"): creates the file or truncates it
Truncate_Unlink(f, p, t) ==
    IF p \in DOMAIN f THEN [q \in DOMAIN f \ {p} |-> f[q]]
    ELSE Bind(f, p, [content |-> 0, mtime |-> t, readable |-> TRUE])
Truncate(f, p, t) ==
    IF p \in DOMAIN f THEN Bind(f, p, [f[p] EXCEPT !.content = 0, !.mtime = t])
    ELSE Bind(f, p, [content |-> 0, mtime |-> t, readable |-> TRUE])

\* the writes of shutil.copyfile: content only, mtime is the time of writing
WriteContent(f, p, c, t) ==
    Bind(f, p, [content |-> c, mtime |-> t,
                readable |-> IF p \in DOMAIN f THEN f[p].readable ELSE TRUE])

\* dst.parent.mkdir(parents=True, exist_ok=True)
MkParents_None(tree) == {}
MkParents(tree) == IF tree[1] = NAS THEN {NasRoot, tree} ELSE {tree}

\* root.rglob("*") filtered by is_file(): the regular files under root
rglob_OriginalsOnly(tree) == {p \in DOMAIN fs[tree] : p.sfx = <<>>}
rglob(tree) == DOMAIN fs[tree]

\* What copy_with_smart_conflict returns for a decision ("NotRegular": the
\* source is no regular file).
ReturnValue_SkipCounts(decision) == decision # "NotRegular"
ReturnValue(decision) ==
    decision \in {"CopyAsNew", "CopyBecauseNewer", "CopyAsConflict"}

\* copied += 1 if the call returned True
Count(n, returned) == IF returned THEN n + 1 ELSE n

\* Where main is when sync_source_to_central has returned: at its call of
\* sync_central_to_source for the same source.
AfterPush_NextEndpoint == "loop"
AfterPush == "between"

\* A pass whose source root is no directory prints a warning and returns:
\* main goes on where it would after the pass.
AfterMissingRoot_Fatal(next) == "aborted"
AfterMissingRoot(next) == next

----
\* Two hosts with one save source each, which they share on the NAS.
TwoHosts == [h \in {"deck", "pc"} |-> <<"retroarch_saves">>]
OneHost == [h \in {"deck"} |-> <<"retroarch_saves">>]
\* One host with two save sources, in the order of the configured list.
TwoSources == [h \in {"deck"} |-> <<"retroarch_saves", "dolphin_gc">>]

\* The local directories the configuration c names.
Configured(c) ==
    UNION {{LocalTree(h, c.sources[h][i]) : i \in DOMAIN c.sources[h]} :
              h \in DOMAIN c.sources}

\* No process runs, no file exists; the directories d exist.
StartIn(c, d) ==
    /\ cfg = c
    /\ clock = 0
    /\ fs = [t \in Trees |-> EmptyTree]
    /\ dirs = d
    /\ pc = "idle"
    /\ host = NoHost
    /\ dry_run = FALSE
    /\ queue = <<>>
    /\ source = ""
    /\ direction = "none"
    /\ todo = {}
    /\ copied = 0
    /\ src = NoLoc
    /\ dst = NoLoc
    /\ ops = <<>>
    /\ opened = FALSE
    /\ dec = NoDec
    /\ exitcode = 0
    /\ pre = NoPre
    /\ log = {}
    /\ etime = <<>>
    /\ backups = {}
    /\ quiet = NoHost
    /\ second = FALSE
    /\ used = [ticks |-> 0, edits |-> 0, runs |-> 0, kills |-> 0, faults |-> 0,
               unmounts |-> 0, restores |-> 0]

\* Every configured local directory exists.
Start(c) == StartIn(c, Configured(c))

Init ==
    Start([sources |-> TwoHosts, midrun |-> FALSE, ticks |-> MaxTicks,
           edits |-> MaxEdits, runs |-> MaxRuns, kills |-> 0, faults |-> 0,
           unmounts |-> 0, restores |-> 0])

InitBurst ==
    Start([sources |-> OneHost, midrun |-> FALSE, ticks |-> BurstTicks,
           edits |-> BurstEdits, runs |-> BurstRuns, kills |-> 0, faults |-> 0,
           unmounts |-> 0, restores |-> 0])

InitStop ==
    Start([sources |-> OneHost, midrun |-> TRUE, ticks |-> StopTicks,
           edits |-> StopEdits, runs |-> StopRuns, kills |-> MaxKills,
           faults |-> 0, unmounts |-> 0, restores |-> 0])

InitFault ==
    Start([sources |-> OneHost, midrun |-> FALSE, ticks |-> 0,
           edits |-> FaultEdits, runs |-> FaultRuns, kills |-> 0,
           faults |-> MaxFaults, unmounts |-> 0, restores |-> 0])

\* Any of the configured directories may be missing at the start.
InitEndpoints ==
    \E d \in SUBSET {LocalTree("deck", n) : n \in {"retroarch_saves",
                                                   "dolphin_gc"}} :
        StartIn([sources |-> TwoSources, midrun |-> FALSE, ticks |-> 0,
                 edits |-> EndpointEdits, runs |-> EndpointRuns, kills |-> 0,
                 faults |-> 0, unmounts |-> MaxUnmounts, restores |-> 0], d)

InitVanish ==
    Start([sources |-> OneHost, midrun |-> FALSE, ticks |-> VanishTicks,
           edits |-> VanishEdits, runs |-> VanishRuns, kills |-> 0,
           faults |-> 0, unmounts |-> MaxVanish, restores |-> 0])

InitRestore ==
    Start([sources |-> OneHost, midrun |-> FALSE, ticks |-> RestoreTicks,
           edits |-> RestoreEdits, runs |-> RestoreRuns, kills |-> 0,
           faults |-> 0, unmounts |-> MaxLost, restores |-> MaxRestores])


----
runLocals == <<queue, source, direction, todo, copied, src, dst, ops, opened, dec>>
history == <<etime, backups, quiet, second>>

\* Time passes.
Tick(d) ==
    /\ used.ticks < cfg.ticks
    /\ pc = "idle" \/ cfg.midrun
    /\ clock' = clock + d
    /\ used' = [used EXCEPT !.ticks = @ + 1]
    /\ UNCHANGED <<cfg, fs, dirs, pc, host, dry_run, runLocals, exitcode,
                   pre, log, history>>

\* The emulator on host h writes the save file p (while no sync is running).
UserEdit(h, n, p) ==
    /\ pc = "idle"
    /\ used.edits < cfg.edits
    /\ LocalTree(h, n) \in dirs
    /\ LET t == LocalTree(h, n)
           r == IF p \in DOMAIN fs[t] THEN fs[t][p].readable ELSE TRUE
       IN fs' = [fs EXCEPT ![t] = Bind(@, p, [content |-> used.edits + 1,
                                              mtime |-> clock,
                                              readable |-> r])]
    /\ etime' = Append(etime, clock)
    /\ used' = [used EXCEPT !.edits = @ + 1]
    /\ quiet' = NoHost
    /\ UNCHANGED <<cfg, clock, dirs, pc, host, dry_run, runLocals, exitcode,
                   pre, log, backups, second>>

\* The local file p of host h becomes unreadable (permissions).
Protect(h, n, p) ==
    /\ pc = "idle"
    /\ used.faults < cfg.faults
    /\ p \in DOMAIN fs[LocalTree(h, n)]
    /\ fs[LocalTree(h, n)][p].readable
    /\ fs' = [fs EXCEPT ![LocalTree(h, n)][p].readable = FALSE]
    /\ used' = [used EXCEPT !.faults = @ + 1]
    /\ quiet' = NoHost
    /\ UNCHANGED <<cfg, clock, dirs, pc, host, dry_run, runLocals, exitcode,
                   pre, log, etime, backups, second>>

\* main, up to the for loop: create the central root, collect the sources.
StartRun(h, dry) ==
    /\ pc = "idle"
    /\ used.runs < cfg.runs
    /\ host' = h
    /\ dry_run' = dry
    /\ dirs' = dirs \cup {NasRoot}
    /\ pre' = [fs |-> fs, dirs |-> dirs]
    /\ log' = {}
    /\ second' = (quiet = h /\ ~dry)
    /\ quiet' = NoHost
    /\ used' = [used EXCEPT !.runs = IF dry THEN @ ELSE @ + 1]
    /\ IF get_save_sources(h) = <<>>
       THEN /\ pc' = "exit"
            /\ exitcode' = 1
            /\ queue' = <<>>
       ELSE /\ pc' = "loop"
            /\ exitcode' = exitcode
            /\ queue' = get_save_sources(h)
    /\ UNCHANGED <<cfg, clock, fs, source, direction, todo, copied, src, dst,
                   ops, opened, dec, etime, backups>>

\* main: the for loop takes the next source and calls sync_source_to_central,
\* or ends and main returns 0.
NextSource ==
    /\ pc = "loop"
    /\ IF queue = <<>>
       THEN /\ pc' = "exit"
            /\ exitcode' = 0
            /\ UNCHANGED <<queue, source, direction, todo, copied>>
       ELSE /\ source' = Head(queue)
            /\ queue' = Tail(queue)
            /\ direction' = "push"
            /\ copied' = 0
            /\ exitcode' = exitcode
            /\ IF LocalTree(host, Head(queue)) \in dirs
               THEN /\ todo' = rglob(LocalTree(host, Head(queue)))
                    /\ pc' = "push"
               ELSE /\ todo' = {}
                    /\ pc' = AfterMissingRoot(AfterPush)
    /\ UNCHANGED <<cfg, clock, fs, dirs, host, dry_run, src, dst, ops, opened,
                   dec, pre, log, history, used>>

\* sync_source_to_central returns when its loop is exhausted.
EndPush ==
    /\ pc = "push"
    /\ todo = {}
    /\ pc' = AfterPush
    /\ UNCHANGED <<cfg, clock, fs, dirs, host, dry_run, runLocals, exitcode,
                   pre, log, history, used>>

\* main calls sync_central_to_source.
BeginPull ==
    /\ pc = "between"
    /\ direction' = "pull"
    /\ copied' = 0
    /\ IF CentralTree(source) \in dirs
       THEN /\ todo' = rglob(CentralTree(source))
            /\ pc' = "pull"
       ELSE /\ todo' = {}
            /\ pc' = AfterMissingRoot("loop")
    /\ UNCHANGED <<cfg, clock, fs, dirs, host, dry_run, queue, source, src,
                   dst, ops, opened, dec, exitcode, pre, log, history, used>>

\* sync_central_to_source returns when its loop is exhausted.
EndPull ==
    /\ pc = "pull"
    /\ todo = {}
    /\ pc' = "loop"
    /\ UNCHANGED <<cfg, clock, fs, dirs, host, dry_run, runLocals, exitcode,
                   pre, log, history, used>>

SrcTree == IF direction = "push" THEN LocalTree(host, source)
                                 ELSE CentralTree(source)
DstTree == IF direction = "push" THEN CentralTree(source)
                                 ELSE LocalTree(host, source)

\* One iteration of the pass's loop: the call of copy_with_smart_conflict for
\* path p up to (excluding) its first copy_file_nfs_safe, or up to its return.
Reconcile(p) ==
    /\ pc \in {"push", "pull"}
    /\ p \in todo
    /\ LET s == [tree |-> SrcTree, path |-> p]
           d == [tree |-> DstTree, path |-> p]
           e == Exists(d)
           regular == Exists(s)
           unreadable == e /\ (~File(s).readable \/ ~File(d).readable)
           dt == IF e THEN File(s).mtime - File(d).mtime ELSE 0
           decision == Decide(e, sha256_of_file(File(s)),
                              IF e THEN sha256_of_file(File(d)) ELSE <<>>, dt)
           bk == conflict_path(p, hostname(host), clock)
       IN /\ src' = s
          /\ dst' = d
          /\ IF ~regular
             THEN \* the file is gone: is_file() fails, the call returns False
                  /\ dec' = [NoDec EXCEPT !.d = "NotRegular"]
                  /\ log' = log \cup {<<direction, p, "NotRegular">>}
                  /\ copied' = Count(copied, ReturnValue("NotRegular"))
                  /\ todo' = todo \ {p}
                  /\ UNCHANGED <<pc, ops, exitcode>>
             ELSE IF unreadable
             THEN \* sha256_of_file raises; nothing catches it
                  /\ pc' = "aborted"
                  /\ exitcode' = 1
                  /\ UNCHANGED <<todo, copied, ops, dec, log>>
             ELSE /\ dec' = [d |-> decision, exists |-> e,
                             same |-> e /\ File(s).content = File(d).content,
                             dt |-> dt,
                             old |-> IF e THEN File(d).content ELSE 0,
                             new |-> File(s).content,
                             bk |-> bk]
                  /\ log' = log \cup {<<direction, p, decision>>}
                  /\ exitcode' = exitcode
                  /\ IF dry_run \/ Plan(decision, s, d, bk) = <<>>
                     THEN \* nothing is copied: the call returns at once
                          /\ copied' = Count(copied, ReturnValue(decision))
                          /\ todo' = todo \ {p}
                          /\ UNCHANGED <<pc, ops>>
                     ELSE /\ ops' = Plan(decision, s, d, bk)
                          /\ pc' = "copy"
                          /\ UNCHANGED <<todo, copied>>
    /\ UNCHANGED <<cfg, clock, fs, dirs, host, dry_run, queue, source,
                   direction, opened, pre, history, used>>

\* copy_file_nfs_safe, first half: make the parent directories, open the
\* source for reading and the target for writing (which empties it).
CopyOpen ==
    /\ pc = "copy"
    /\ ~opened
    /\ LET op == Head(ops)
       IN /\ dirs' = dirs \cup MkParents(op.to.tree)
          /\ IF ~File(op.from).readable
             THEN /\ pc' = "aborted"
                  /\ exitcode' = 1
                  /\ UNCHANGED <<fs, opened>>
             ELSE /\ fs' = [fs EXCEPT ![op.to.tree] =
                                Truncate(@, op.to.path, clock)]
                  /\ opened' = TRUE
                  /\ UNCHANGED <<pc, exitcode>>
    /\ UNCHANGED <<cfg, clock, host, dry_run, queue, source, direction, todo,
                   copied, src, dst, ops, dec, pre, log, etime, backups,
                   quiet, second, used>>

\* copy_file_nfs_safe, second half: the content is written.  After the last
\* copy of the decision, copy_with_smart_conflict returns True.
CopyWrite ==
    /\ pc = "copy"
    /\ opened
    /\ LET op == Head(ops)
           c == File(op.from).content
       IN /\ fs' = [fs EXCEPT ![op.to.tree] =
                        WriteContent(@, op.to.path, c, clock)]
          /\ backups' = IF op.from = dst
                        THEN backups \cup {[tree |-> op.to.tree,
                                            path |-> op.to.path,
                                            content |-> dec.old]}
                        ELSE backups
    /\ ops' = Tail(ops)
    /\ opened' = FALSE
    /\ IF Tail(ops) = <<>>
       THEN /\ pc' = direction
            /\ copied' = Count(copied, ReturnValue(dec.d))
            /\ todo' = todo \ {src.path}
       ELSE UNCHANGED <<pc, copied, todo>>
    /\ UNCHANGED <<cfg, clock, dirs, host, dry_run, queue, source, direction,
                   src, dst, dec, exitcode, pre, log, etime, quiet,
                   second, used>>

\* The process is terminated from outside.
Kill ==
    /\ pc \in {"loop", "push", "between", "pull", "copy"}
    /\ used.kills < cfg.kills
    /\ pc' = "killed"
    /\ exitcode' = 137
    /\ used' = [used EXCEPT !.kills = @ + 1]
    /\ UNCHANGED <<cfg, clock, fs, dirs, host, dry_run, runLocals, pre, log,
                   history>>

\* The process is gone: it returned, died of an exception or was killed.
Exit ==
    /\ pc \in {"exit", "aborted", "killed"}
    /\ pc' = "idle"
    /\ quiet' = IF pc = "exit" /\ exitcode = 0 /\ ~dry_run
                    /\ direction # "restore"
                 THEN host ELSE NoHost
    /\ host' = NoHost
    /\ dry_run' = FALSE
    /\ queue' = <<>>
    /\ source' = ""
    /\ direction' = "none"
    /\ todo' = {}
    /\ copied' = 0
    /\ src' = NoLoc
    /\ dst' = NoLoc
    /\ ops' = <<>>
    /\ opened' = FALSE
    /\ dec' = NoDec
    /\ pre' = NoPre
    /\ log' = {}
    /\ second' = FALSE
    /\ exitcode' = 0
    /\ UNCHANGED <<cfg, clock, fs, dirs, etime, backups, used>>

\* The steps of a process.
Run ==
    \/ \E h \in Hosts, dry \in BOOLEAN : StartRun(h, dry)
    \/ NextSource
    \/ EndPush
    \/ BeginPull
    \/ EndPull
    \/ \E p \in todo : Reconcile(p)
    \/ CopyOpen
    \/ CopyWrite
    \/ Exit

\* The steps of the users.
Edit == \E h \in Hosts, n \in Names, p \in BasePaths : UserEdit(h, n, p)

Next ==
    \/ \E d \in TickSizes : Tick(d)
    \/ Edit
    \/ Run

Spec == Init /\ [][Next]_vars

SpecBurst == InitBurst /\ [][Next]_vars

NextStop ==
    \/ \E d \in TickSizes : Tick(d)
    \/ Edit
    \/ Run
    \/ Kill

SpecStop == InitStop /\ [][NextStop]_vars

NextFault ==
    \/ Edit
    \/ \E h \in Hosts, n \in Names, p \in BasePaths : Protect(h, n, p)
    \/ Run

SpecFault == InitFault /\ [][NextFault]_vars

\* The local directory of save source n of host h disappears with all it
\* holds (the emulator is removed, a volume is unmounted), between two calls
\* of copy_with_smart_conflict or while no process runs.
Unmount(h, n) ==
    /\ pc \in {"idle", "loop", "push", "between", "pull"}
    /\ used.unmounts < cfg.unmounts
    /\ LocalTree(h, n) \in dirs
    /\ dirs' = dirs \ {LocalTree(h, n)}
    /\ fs' = [fs EXCEPT ![LocalTree(h, n)] = EmptyTree]
    /\ used' = [used EXCEPT !.unmounts = @ + 1]
    /\ quiet' = NoHost
    /\ UNCHANGED <<cfg, clock, pc, host, dry_run, runLocals, exitcode, pre,
                   log, etime, backups, second>>

NextEndpoints ==
    \/ Edit
    \/ \E h \in Hosts, n \in Names : Unmount(h, n)
    \/ Run

SpecEndpoints == InitEndpoints /\ [][NextEndpoints]_vars

NextVanish ==
    \/ \E d \in TickSizes : Tick(d)
    \/ Edit
    \/ \E h \in Hosts, n \in Names : Unmount(h, n)
    \/ Run

SpecVanish == InitVanish /\ [][NextVanish]_vars

----
(***************************************************************************)
(* restore_saves.py --source n --restore . : the directory of save source  *)
(* n on the NAS is copied back to the local directory of n.  A directory   *)
(* that is moved keeps its files; its new place is a tree of its own.      *)
(***************************************************************************)

\* time.strftime("%Y%m%d-%H%M%S"): the local time, to the second
strftime(t) == <<"%Y%m%d-%H%M%S", t>>

\* dest.with_name(dest.name + f".pre-restore-backup-{ts}")
backup_path(dest, ts) == <<dest[1], dest[2], ".pre-restore-backup", ts>>

\* shutil.move(src, dst): where src ends up.  When dst is an existing
\* directory, src is moved into it under its own name.
real_dst(from, to) == IF to \in dirs THEN Append(to, from[2]) ELSE to

\* os.rename(src, real_dst) of a directory
Rename(f, from, to) ==
    [t \in DOMAIN f \cup {to} |->
        IF t = to THEN f[from] ELSE IF t = from THEN EmptyTree ELSE f[t]]

\* shutil.copytree(src, dst) into a directory that does not exist
copytree(f, s, d) == [f EXCEPT ![d] = f[s]]

\* copy_tree's loop for an existing dst: shutil.copy2 of every file of src
MergeCopy(f, s, d) ==
    [f EXCEPT ![d] = [p \in DOMAIN f[d] \cup DOMAIN f[s] |->
                          IF p \in DOMAIN f[s] THEN f[s][p] ELSE f[d][p]]]

\* copy_tree(src, dst, dry_run): the files and directories it leaves (the
\* parent of a save source's local directory is no directory of the model)
copy_tree_IgnoresDryRun(s, d, dry) ==
    [fs |-> IF d \in dirs THEN MergeCopy(fs, s, d) ELSE copytree(fs, s, d),
     dirs |-> dirs \cup {d}]
copy_tree(s, d, dry) ==
    IF dry THEN [fs |-> fs, dirs |-> dirs]
    ELSE [fs |-> IF d \in dirs THEN MergeCopy(fs, s, d)
                                ELSE copytree(fs, s, d),
          dirs |-> dirs \cup {d}]

\* cmd_restore up to its call of backup_existing: the source name is looked
\* up in the configured list, the NAS directory must exist.
StartRestore(h, n, dry) ==
    /\ pc = "idle"
    /\ used.restores < cfg.restores
    /\ host' = h
    /\ dry_run' = dry
    /\ source' = n
    /\ direction' = "restore"
    /\ pre' = [fs |-> fs, dirs |-> dirs]
    /\ log' = {}
    /\ quiet' = NoHost
    /\ used' = [used EXCEPT !.restores = IF dry THEN @ ELSE @ + 1]
    /\ IF \/ \A i \in DOMAIN cfg.sources[h] : cfg.sources[h][i] # n
          \/ CentralTree(n) \notin dirs
       THEN /\ pc' = "exit"
            /\ exitcode' = 2
            /\ UNCHANGED <<src, dst>>
       ELSE /\ pc' = "backup_existing"
            /\ src' = [tree |-> CentralTree(n), path |-> NoPath]
            /\ dst' = [tree |-> LocalTree(h, n), path |-> NoPath]
            /\ exitcode' = exitcode
    /\ UNCHANGED <<cfg, clock, fs, dirs, queue, todo, copied, ops, opened,
                   dec, etime, backups, second>>

\* backup_existing(dest_dir, dry_run)
BackupExisting ==
    /\ pc = "backup_existing"
    /\ LET backup == backup_path(dst.tree, strftime(clock))
           to == real_dst(dst.tree, backup)
       IN IF dst.tree \notin dirs
          THEN /\ pc' = "copy_tree"
               /\ UNCHANGED <<fs, dirs, log, exitcode>>
          ELSE /\ log' = log \cup {<<"restore", dst.tree, backup>>}
               /\ IF dry_run
                  THEN /\ pc' = "copy_tree"
                       /\ UNCHANGED <<fs, dirs, exitcode>>
                  ELSE IF to \in dirs
                  THEN \* shutil.Error: destination path already exists
                       /\ pc' = "aborted"
                       /\ exitcode' = 1
                       /\ UNCHANGED <<fs, dirs>>
                  ELSE /\ fs' = Rename(fs, dst.tree, to)
                       /\ dirs' = (dirs \ {dst.tree}) \cup {to}
                       /\ pc' = "copy_tree"
                       /\ exitcode' = exitcode
    /\ UNCHANGED <<cfg, clock, host, dry_run, runLocals, pre, history, used>>

\* copy_tree(src_dir, dest_dir, dry_run), and cmd_restore returns 0.
CopyTree ==
    /\ pc = "copy_tree"
    /\ fs' = copy_tree(src.tree, dst.tree, dry_run).fs
    /\ dirs' = copy_tree(src.tree, dst.tree, dry_run).dirs
    /\ pc' = "exit"
    /\ exitcode' = 0
    /\ UNCHANGED <<cfg, clock, host, dry_run, runLocals, pre, log, history,
                   used>>

Restore ==
    \/ \E h \in Hosts, n \in Names \cup {"unknown"}, dry \in BOOLEAN :
           StartRestore(h, n, dry)
    \/ BackupExisting
    \/ CopyTree

NextRestore ==
    \/ \E d \in TickSizes : Tick(d)
    \/ Edit
    \/ \E h \in Hosts, n \in Names : Unmount(h, n)
    \/ Run
    \/ Restore

SpecRestore == InitRestore /\ [][NextRestore]_vars

TypeOK ==
    /\ pc \in {"idle", "loop", "push", "between", "pull", "copy", "exit",
               "aborted", "killed", "backup_existing", "copy_tree"}
    /\ Trees \subseteq DOMAIN fs
    /\ dirs \subseteq DOMAIN fs \cup {NasRoot}
    /\ \A t \in DOMAIN fs : \A p \in DOMAIN fs[t] : fs[t][p].mtime <= clock

----
(***************************************************************************)
(* Properties.                                                             *)
(***************************************************************************)

\* The place of the backup the current conflict decision writes.
BackupLoc == [dst EXCEPT !.path = dec.bk]

\* C1: backup precedes overwrite.  From a conflict decision on, in every
\* state (between and during the two copies, and after a stop of the process)
\* the content the destination had at the decision is held by the destination
\* itself or by the backup file.
BackupPrecedesOverwrite ==
    (dec.d = "CopyAsConflict" /\ ~dry_run) =>
        \/ File(dst).content = dec.old
        \/ Exists(BackupLoc) /\ File(BackupLoc).content = dec.old

\* C1 witness: the process was stopped in a conflict after the destination
\* lost its old content.
BackupPrecedesOverwrite_Witness ==
    /\ pc = "killed"
    /\ dec.d = "CopyAsConflict"
    /\ ~dry_run
    /\ dec.old # 0
    /\ File(dst).content # dec.old
    /\ File(BackupLoc).content = dec.old

\* The contents held by some file of some tree.
Held == UNION {{fs[t][p].content : p \in DOMAIN fs[t]} : t \in Trees}

\* C2: the most recent user modification is never lost.  The content of the
\* user modification that is later than every other one is held by some file
\* (the file itself on some side, or a backup).
NewestEditSurvives ==
    \A c \in DOMAIN etime :
        (\A b \in DOMAIN etime \ {c} : etime[b] < etime[c]) => c \in Held

\* A step in which copy_with_smart_conflict is called and reaches a decision.
Decides ==
    /\ pc \in {"push", "pull"}
    /\ todo' # todo \/ pc' = "copy"

\* C3: skip on identical content.  Whenever the destination exists and has
\* the source's content, whatever the two modification times, the call
\* decides Skip and returns False at once: no file and no directory changes,
\* no copy is started and the copied counter stays.
SkipOnIdenticalContent ==
    [][(Decides /\ dec'.same) =>
          /\ dec'.d = "Skip"
          /\ fs' = fs
          /\ dirs' = dirs
          /\ copied' = copied
          /\ pc' = pc
          /\ ops' = ops]_vars

\* C3 witness: identical content was skipped although the modification times
\* are further apart than the skew allowance.
SkipOnIdenticalContent_Witness ==
    /\ dec.exists
    /\ dec.same
    /\ dec.d = "Skip"
    /\ Abs(dec.dt) > SKEW_ALLOWANCE_SECONDS
    /\ fs = pre.fs

\* C4: the skew boundary is inclusive.  For differing contents, a difference
\* of the modification times of exactly the allowance (either sign) is a
\* conflict: the destination is copied to the backup, then overwritten.  A
\* larger difference is a clear winner: the source is copied over the
\* destination (and nothing else) when it is the newer one, and nothing
\* happens when the destination is the newer one.
SkewBoundaryInclusive ==
    /\ [][(Decides /\ dec'.exists /\ ~dec'.same) =>
            /\ Abs(dec'.dt) = SKEW_ALLOWANCE_SECONDS =>
                 /\ dec'.d = "CopyAsConflict"
                 /\ ~dry_run =>
                      ops' = <<Copy(dst', [dst' EXCEPT !.path = dec'.bk]),
                               Copy(src', dst')>>
            /\ dec'.dt > SKEW_ALLOWANCE_SECONDS =>
                 /\ dec'.d = "CopyBecauseNewer"
                 /\ ~dry_run => ops' = <<Copy(src', dst')>>
            /\ dec'.dt < -SKEW_ALLOWANCE_SECONDS =>
                 /\ dec'.d = "Skip"
                 /\ fs' = fs
                 /\ pc' = pc
                 /\ copied' = copied]_vars
    /\ [](pc \in {"push", "pull"} /\ dec.exists /\ ~dec.same /\ ~dry_run =>
            /\ Abs(dec.dt) = SKEW_ALLOWANCE_SECONDS =>
                 /\ File(dst).content = dec.new
                 /\ File(BackupLoc).content = dec.old
            /\ dec.dt > SKEW_ALLOWANCE_SECONDS =>
                 File(dst).content = dec.new
            /\ dec.dt < -SKEW_ALLOWANCE_SECONDS =>
                 /\ File(dst).content = dec.old
                 /\ File(src).content = dec.new)

\* C4 witness: a destination newer than the source by exactly the allowance
\* has been backed up and overwritten.
SkewBoundaryInclusive_Witness ==
    /\ pc \in {"push", "pull"}
    /\ ~dry_run
    /\ dec.exists
    /\ ~dec.same
    /\ dec.dt = -SKEW_ALLOWANCE_SECONDS
    /\ dec.d = "CopyAsConflict"
    /\ File(dst).content = dec.new
    /\ File(BackupLoc).content = dec.old

\* C5: a dry run suppresses every filesystem mutation.  While a process
\* started with --dry-run runs, and when it has returned, the files, their
\* contents and the directories are those of the moment it started.
DryRunChangesNothing ==
    dry_run => (fs = pre.fs /\ dirs = pre.dirs)

\* C5, the part the program keeps: a dry run changes no file and creates
\* nothing but the central root directory.
DryRunChangesNoFile ==
    dry_run => (fs = pre.fs /\ dirs \subseteq pre.dirs \cup {NasRoot})

\* C6: a full run is idempotent.  In a live run that follows a completed live
\* run of the same host with nothing but the passing of time in between,
\* every decision is Skip and no file changes.
SecondRunOnlySkips ==
    second => /\ \A e \in log : e[3] = "Skip"
              /\ fs = pre.fs

\* C7: no deletion.  No step removes a file path from a tree or a directory:
\* a step creates a file, overwrites an existing one or leaves the files alone.
NoDeletion ==
    [][/\ \A t \in Trees : DOMAIN fs[t] \subseteq DOMAIN fs'[t]
       /\ dirs \subseteq dirs']_vars

\* C7 witness: a live pass has overwritten an existing destination file.
NoDeletion_Witness ==
    /\ pc \in {"push", "pull"}
    /\ ~dry_run
    /\ dec.d = "CopyBecauseNewer"
    /\ dec.old # 0
    /\ File(dst).content = dec.new
    /\ \A t \in Trees : DOMAIN pre.fs[t] \subseteq DOMAIN fs[t]

\* C8: a per-file I/O failure does not abort the run.  A file that cannot be
\* read never ends the process: the run goes on with the remaining files,
\* directions and sources.
PerFileFailureDoesNotAbort ==
    pc # "aborted"

\* A push-then-pull cycle of a live run has just been completed for `source'.
CycleDone == pc = "loop" /\ direction = "pull" /\ ~dry_run

\* The file at p had differing contents on the two sides when the process
\* started, the modification times being further apart than the allowance.
ClearlyApart(p) ==
    LET l == pre.fs[LocalTree(host, source)]
        c == pre.fs[CentralTree(source)]
    IN /\ p \in DOMAIN l \cap DOMAIN c
       /\ l[p].content # c[p].content
       /\ Abs(l[p].mtime - c[p].mtime) > SKEW_ALLOWANCE_SECONDS

\* C9: the clearly newer side wins in one cycle, whichever side it is.  After
\* a cycle both sides hold the content of the side whose modification time was
\* the larger one: the push copied it when that was the local side, else the
\* push skipped and the pull copied it; no conflict was decided for the file.
ClearlyNewerSideWins ==
    CycleDone =>
        \A p \in DOMAIN pre.fs[LocalTree(host, source)] :
            ClearlyApart(p) =>
                LET l == pre.fs[LocalTree(host, source)][p]
                    c == pre.fs[CentralTree(source)][p]
                    winner == IF l.mtime > c.mtime THEN l ELSE c
                IN /\ fs[LocalTree(host, source)][p].content = winner.content
                   /\ fs[CentralTree(source)][p].content = winner.content
                   /\ IF l.mtime > c.mtime
                      THEN <<"push", p, "CopyBecauseNewer">> \in log
                      ELSE /\ <<"push", p, "Skip">> \in log
                           /\ <<"pull", p, "CopyBecauseNewer">> \in log
                   /\ \A e \in log : e[2] = p => e[3] # "CopyAsConflict"

\* C9 witness: a cycle is complete in which the central side was the clearly
\* newer one, and the local side has got its content.
ClearlyNewerSideWins_Witness ==
    /\ CycleDone
    /\ \E p \in DOMAIN pre.fs[LocalTree(host, source)] :
          /\ ClearlyApart(p)
          /\ pre.fs[CentralTree(source)][p].mtime
                 > pre.fs[LocalTree(host, source)][p].mtime
          /\ fs[LocalTree(host, source)][p].content
                 = pre.fs[CentralTree(source)][p].content

\* The paths a step adds to some tree.
Created == UNION {DOMAIN fs'[t] \ DOMAIN fs[t] : t \in Trees}

\* C10: a conflict backup is created only by the conflict decision and is
\* permanent.  A copy started by another decision creates no file besides its
\* destination, and every backup a conflict has written still exists with
\* the content it preserved, whatever passes (and conflicts) came later.
BackupsArePermanent ==
    /\ [][pc = "copy" =>
            Created \subseteq (IF dec.d = "CopyAsConflict"
                               THEN {dst.path, dec.bk} ELSE {dst.path})]_vars
    /\ [](\A b \in backups :
            /\ b.path \in DOMAIN fs[b.tree]
            /\ fs[b.tree][b.path].content = b.content)

\* C10, the part the program keeps: a backup once written is never removed.
BackupsAreNeverRemoved ==
    \A b \in backups : b.path \in DOMAIN fs[b.tree]

\* A step in which main calls sync_source_to_central (for the next source),
\* and one in which it calls sync_central_to_source.
StartsPush == direction' = "push" /\ source' # source
StartsPull == direction' = "pull" /\ direction # "pull"

\* The pass main called last has returned.
PassReturned == pc \in {"loop", "between"} /\ todo = {} /\ ops = <<>>

\* C11: push-then-pull per endpoint.  The pull pass of an endpoint starts only
\* when the push pass of that same endpoint has returned, and the push pass of
\* an endpoint starts only at the beginning of the run or when the pull pass
\* of the endpoint before it has returned: never a push after a push.
PushThenPullPerEndpoint ==
    [][/\ StartsPull => /\ PassReturned
                        /\ direction = "push"
                        /\ source' = source
       /\ StartsPush => /\ PassReturned
                        /\ direction = "none" \/ direction = "pull"
                        /\ direction = "none" <=> source = ""
                        /\ source' = Head(queue)]_vars

\* C11 witness: a run over two endpoints is in the pull pass of the second
\* one, the cycle of the first one having copied a file each way or one way.
PushThenPullPerEndpoint_Witness ==
    /\ pc = "pull"
    /\ ~dry_run
    /\ host # NoHost
    /\ Len(cfg.sources[host]) = 2
    /\ source = cfg.sources[host][2]
    /\ queue = <<>>
    /\ todo # {}
    /\ DOMAIN fs[CentralTree(cfg.sources[host][1])] # {}
    /\ DOMAIN fs[LocalTree(host, cfg.sources[host][1])] # {}

\* A step of a copy that the decision CopyAsNew started in a live run.
CopiesAsNew == pc = "copy" /\ dec.d = "CopyAsNew" /\ ~dry_run

\* C12: a missing destination means copy as new.  For a regular source file
\* whose destination path does not exist the decision is CopyAsNew whatever
\* the contents and modification times are; a live call then makes the one
\* copy from source to destination, which creates the missing parent
\* directories, touches no file but the destination (no backup appears) and
\* ends with the destination holding the source's content and the call
\* returning True (the pass counts it).
MissingDestinationCopiedAsNew ==
    [][/\ (Decides /\ dec'.d # "NotRegular" /\ ~dec'.exists) =>
             /\ dec'.d = "CopyAsNew"
             /\ ~dry_run => (pc' = "copy" /\ ops' = <<Copy(src', dst')>>)
       /\ CopiesAsNew =>
             /\ dst.tree \in dirs'
             /\ dst.tree[1] = NAS => NasRoot \in dirs'
             /\ dirs \subseteq dirs'
             /\ Created \subseteq {dst.path}
             /\ \A t \in Trees : \A p \in DOMAIN fs[t] :
                    (t # dst.tree \/ p # dst.path) =>
                        (p \in DOMAIN fs'[t] /\ fs'[t][p] = fs[t][p])
             /\ pc' # "copy" =>
                    /\ pc' = direction
                    /\ Exists(dst)'
                    /\ File(dst)'.content = dec.new
                    /\ File(src)' = File(src)
                    /\ copied' = copied + 1]_vars

\* C12 witness: a live pass has copied a file as new into a directory that
\* did not exist when the process started.
MissingDestinationCopiedAsNew_Witness ==
    /\ pc \in {"push", "pull"}
    /\ ~dry_run
    /\ dec.d = "CopyAsNew"
    /\ ~dec.exists
    /\ dst.tree \notin pre.dirs
    /\ dst.tree \in dirs
    /\ Exists(dst)
    /\ File(dst).content = dec.new
    /\ dec.new # 0
    /\ copied > 0

\* A step in which a call of copy_with_smart_conflict returns to the pass.
Returns ==
    /\ pc \in {"push", "pull", "copy"}
    /\ pc' \in {"push", "pull"}
    /\ todo' # todo

\* The decision the file pair (s, d) calls for, from the files as they are.
Expected(s, d) ==
    IF ~Exists(s) THEN "NotRegular"
    ELSE IF ~Exists(d) THEN "CopyAsNew"
    ELSE IF File(s).content = File(d).content THEN "Skip"
    ELSE IF File(s).mtime - File(d).mtime > SKEW_ALLOWANCE_SECONDS
         THEN "CopyBecauseNewer"
    ELSE IF File(d).mtime - File(s).mtime > SKEW_ALLOWANCE_SECONDS
         THEN "Skip"
    ELSE "CopyAsConflict"

\* C13: the returned value.  Whether the run is live or dry, the decision of
\* a call depends on the file pair alone, and the call returns True (the pass
\* counts one more copy) exactly when the decision is CopyAsNew,
\* CopyBecauseNewer or CopyAsConflict, and False (the count stays) for Skip
\* and for a source that is no regular file.
ReturnValueFollowsDecision ==
    [][/\ Decides => dec'.d = Expected(src', dst')
       /\ Returns =>
             /\ copied' = copied + 1 <=>
                    dec'.d \in {"CopyAsNew", "CopyBecauseNewer",
                                "CopyAsConflict"}
             /\ copied' = copied <=> dec'.d \in {"Skip", "NotRegular"}
             /\ dry_run => (fs' = fs /\ pc = pc')]_vars

\* C13 witness: a dry run has decided a conflict and counted it as a live
\* run would, without changing a file.
ReturnValueFollowsDecision_Witness ==
    /\ pc \in {"push", "pull"}
    /\ dry_run
    /\ dec.d = "CopyAsConflict"
    /\ copied = 1
    /\ fs = pre.fs
    /\ ~Exists(BackupLoc)

\* C14: a missing source root skips only that direction.  When main calls a
\* pass whose source root (the endpoint's directory for the push, its
\* subdirectory of the central root for the pull) is no directory, the pass
\* returns at once: no file and no directory changes, nothing is decided or
\* counted, the status stays, and main is where it is after any pass (before
\* the pull of the same endpoint, or before the next endpoint).  No process
\* ends by an error.
MissingRootSkipsOnlyThatPass ==
    /\ [][/\ (StartsPush /\ LocalTree(host, source') \notin dirs) =>
                /\ fs' = fs
                /\ dirs' = dirs
                /\ log' = log
                /\ copied' = 0
                /\ todo' = {}
                /\ exitcode' = exitcode
                /\ pc' = "between"
          /\ (StartsPull /\ CentralTree(source) \notin dirs) =>
                /\ fs' = fs
                /\ dirs' = dirs
                /\ log' = log
                /\ copied' = 0
                /\ todo' = {}
                /\ exitcode' = exitcode
                /\ pc' = "loop"]_vars
    /\ [](pc # "aborted")

\* C14 witness: the directory of the first endpoint, which held files when
\* the process started, was gone when its push pass was called; the push
\* decided nothing, the pull has copied from the NAS, the second endpoint is
\* still to come.
MissingRootSkipsOnlyThatPass_Witness ==
    /\ pc = "loop"
    /\ ~dry_run
    /\ direction = "pull"
    /\ queue # <<>>
    /\ LocalTree(host, source) \in pre.dirs
    /\ DOMAIN pre.fs[LocalTree(host, source)] # {}
    /\ \A e \in log : e[1] = "pull"
    /\ \E e \in log : e[3] = "CopyAsNew"
    /\ DOMAIN fs[LocalTree(host, source)] # {}

\* The endpoints of the running host whose directory existed when the process
\* started.
PresentAtStart ==
    {n \in {cfg.sources[host][i] : i \in DOMAIN cfg.sources[host]} :
        LocalTree(host, n) \in pre.dirs}

\* C15: the exit status distinguishes "no endpoints".  When main returns,
\* its status is 1 if none of the configured endpoint directories existed at
\* the start, and then no pass has been called (no source was taken up,
\* nothing was decided, no file changed); otherwise all passes have returned
\* and the status is 0, however many files were copied.
ExitStatusTellsNoEndpoints ==
    pc = "exit" =>
        IF PresentAtStart = {}
        THEN /\ exitcode = 1
             /\ source = ""
             /\ direction = "none"
             /\ log = {}
             /\ fs = pre.fs
        ELSE /\ exitcode = 0
             /\ queue = <<>>
             /\ todo = {}
             /\ direction = "pull"

\* C15 witness: main returns 1 because no endpoint directory exists, although
\* the NAS holds files of an endpoint.
ExitStatusTellsNoEndpoints_Witness ==
    /\ pc = "exit"
    /\ exitcode = 1
    /\ PresentAtStart = {}
    /\ \E n \in Names : DOMAIN fs[CentralTree(n)] # {}

\* A live restore over a destination directory that existed when it started.
RestoresOverExisting ==
    /\ direction = "restore"
    /\ ~dry_run
    /\ dst # NoLoc
    /\ dst.tree \in pre.dirs

\* C16: restore backs up before overwriting.  In a live restore over an
\* existing destination, once backup_existing has returned, the directory
\* whose name it reported ("<dest>.pre-restore-backup-<timestamp>") holds
\* what the destination held before; nothing is copied before that (the
\* destination is gone until copy_tree runs), and when the restore has
\* returned the destination holds the files of the NAS directory.  No
\* restore fails.
RestoreBacksUpFirst ==
    RestoresOverExisting =>
        /\ pc # "aborted"
        /\ pc \in {"copy_tree", "exit"} =>
              \E e \in log :
                  /\ e[2] = dst.tree
                  /\ e[3] \in dirs
                  /\ fs[e[3]] = pre.fs[dst.tree]
        /\ pc = "copy_tree" => dst.tree \notin dirs
        /\ pc = "exit" => /\ exitcode = 0
                          /\ dst.tree \in dirs
                          /\ fs[dst.tree] = fs[src.tree]

\* The restore has been refused: the source name is not configured for the
\* host, or the NAS holds no directory of that name.
RestoreRefused ==
    \/ \A i \in DOMAIN cfg.sources[host] : cfg.sources[host][i] # source
    \/ CentralTree(source) \notin pre.dirs

\* C17: a restore dry run changes nothing.  While a restore started with
\* --dry-run runs and when it has returned, every file and directory of the
\* local side and of the NAS is as it was when it started, whether or not
\* the destination or the NAS directory exists.  A restore that names an
\* unknown source or a missing NAS directory returns 2, and only such a
\* restore does; it has changed nothing either.
RestoreDryRunChangesNothing ==
    direction = "restore" =>
        /\ dry_run => (fs = pre.fs /\ dirs = pre.dirs)
        /\ pc = "exit" => (exitcode = 2 <=> RestoreRefused)
        /\ RestoreRefused => /\ pc = "exit"
                             /\ fs = pre.fs
                             /\ dirs = pre.dirs

\* C17 witness: a dry run of a restore over an existing destination, whose
\* files differ from those of the NAS directory, has announced the backup
\* and returned 0 with everything in place.
RestoreDryRunChangesNothing_Witness ==
    /\ direction = "restore"
    /\ dry_run
    /\ pc = "exit"
    /\ exitcode = 0
    /\ log # {}
    /\ dst.tree \in dirs
    /\ fs[dst.tree] # fs[src.tree]
    /\ fs = pre.fs
    /\ \A e \in log : e[3] \notin dirs

\* A step of a pass, and the step in which the pass returns to main.
PassStep == pc \in {"push", "pull", "copy"}
PassReturns == pc \in {"push", "pull"} /\ pc' \in {"between", "loop"}

\* The paths for which the current pass has called the decision procedure.
Reconciled == {e[2] : e \in {x \in log : x[1] = direction}}

\* C18: every regular file is reconciled exactly once per pass at the
\* mirrored path.  The files under the source root stay the same set from
\* the start of a pass to its end; the decision procedure is called only for
\* a file of that set that the pass has not had before, with the source at
\* the source root and the destination at the same relative path under the
\* destination root (<central>/<endpoint> for a push, the endpoint's local
\* directory for a pull); and when the pass returns it has been called for
\* every file of the set, hence for none of the files the pass created.
EveryFileReconciledOnce ==
    [][PassStep =>
          /\ DOMAIN fs'[SrcTree] = DOMAIN fs[SrcTree]
          /\ Decides =>
                /\ src'.path \in DOMAIN fs[SrcTree]
                /\ src'.path \notin Reconciled
                /\ src'.tree = (IF direction = "push"
                                THEN LocalTree(host, source)
                                ELSE CentralTree(source))
                /\ dst'.tree = (IF direction = "push"
                                THEN CentralTree(source)
                                ELSE LocalTree(host, source))
                /\ dst'.path = src'.path
                /\ src'.path \in Reconciled'
          /\ PassReturns => Reconciled = DOMAIN fs[SrcTree]]_vars

\* C18 witness: a live pull has returned that called the decision procedure
\* for every file of the central tree, backups among them, and that created
\* a local file (a backup of a backup) for which it did not.
EveryFileReconciledOnce_Witness ==
    /\ CycleDone
    /\ Reconciled = DOMAIN fs[CentralTree(source)]
    /\ \E p \in Reconciled : p.sfx # <<>>
    /\ \E p \in DOMAIN fs[LocalTree(host, source)] :
          /\ p \notin DOMAIN pre.fs[LocalTree(host, source)]
          /\ p \notin Reconciled

\* C19: a pass never modifies its source side.  Every step of a push or pull
\* pass, whatever the decision and whether live or dry, leaves the tree under
\* the pass's source root as it is (the same files with the same content and
\* modification time); whatever it writes (copy, overwrite, backup) is a file
\* of the tree under the destination root, the backup beside the destination
\* file.
PassLeavesSourceSideAlone ==
    [][PassStep =>
          /\ fs'[SrcTree] = fs[SrcTree]
          /\ \A t \in Trees \ {DstTree} : fs'[t] = fs[t]
          /\ \A i \in DOMAIN ops' :
                /\ ops'[i].to.tree = DstTree
                /\ ops'[i].to.path \in {dst'.path, dec'.bk}
          /\ dry_run => fs' = fs]_vars

\* C19 witness: a live push has returned after a conflict: the NAS has the
\* backup and the new content, the local tree is as it was.
PassLeavesSourceSideAlone_Witness ==
    /\ pc = "between"
    /\ ~dry_run
    /\ \E e \in log : /\ e[1] = "push"
                      /\ e[3] = "CopyAsConflict"
                      /\ e[2] \in DOMAIN fs[CentralTree(source)]
                      /\ fs[CentralTree(source)][e[2]].content
                             # pre.fs[CentralTree(source)][e[2]].content
    /\ fs[LocalTree(host, source)] = pre.fs[LocalTree(host, source)]
    /\ DOMAIN fs[CentralTree(source)] # DOMAIN pre.fs[CentralTree(source)]

\* The file at p had differing contents on the two sides when the process
\* started, the modification times being no further apart than the allowance.
Ambiguous(p) ==
    LET l == pre.fs[LocalTree(host, source)]
        c == pre.fs[CentralTree(source)]
    IN /\ p \in DOMAIN l \cap DOMAIN c
       /\ l[p].content # c[p].content
       /\ Abs(l[p].mtime - c[p].mtime) <= SKEW_ALLOWANCE_SECONDS

\* The name a conflict backup of p gets in this run; it was free on both
\* sides when the process started.
NewName(p) == conflict_path(p, hostname(host), clock)
NewNameWasFree(p) ==
    NewName(p) \notin DOMAIN pre.fs[LocalTree(host, source)]
                          \cup DOMAIN pre.fs[CentralTree(source)]

\* C20: in the ambiguous window the local side wins the cycle.  For a file
\* with differing contents A (local) and B (central) whose modification times
\* are within the allowance, whichever is the larger, a live push-then-pull
\* cycle that finds the backup name free ends with A in the file on both
\* sides and B in the backup file on both sides: the push decided the
\* conflict, the pull skipped the file, copied the backup to the local side
\* as a new file and decided no conflict.
LocalWinsAmbiguousWindow ==
    CycleDone =>
        \A p \in DOMAIN pre.fs[LocalTree(host, source)] :
            (Ambiguous(p) /\ NewNameWasFree(p)) =>
                LET a == pre.fs[LocalTree(host, source)][p].content
                    b == pre.fs[CentralTree(source)][p].content
                    l == fs[LocalTree(host, source)]
                    c == fs[CentralTree(source)]
                IN /\ l[p].content = a
                   /\ c[p].content = a
                   /\ NewName(p) \in DOMAIN c
                   /\ c[NewName(p)].content = b
                   /\ NewName(p) \in DOMAIN l
                   /\ l[NewName(p)].content = b
                   /\ <<"push", p, "CopyAsConflict">> \in log
                   /\ <<"pull", p, "Skip">> \in log
                   /\ <<"pull", NewName(p), "CopyAsNew">> \in log
                   /\ \A e \in log : e[1] = "pull" => e[3] # "CopyAsConflict"

\* C20 witness: a cycle is complete for a file whose central copy was the
\* newer one, by exactly the allowance; both sides hold the local content
\* and the backup of the central one.
LocalWinsAmbiguousWindow_Witness ==
    /\ CycleDone
    /\ \E p \in DOMAIN pre.fs[LocalTree(host, source)] :
          /\ Ambiguous(p)
          /\ NewNameWasFree(p)
          /\ pre.fs[CentralTree(source)][p].mtime
               - pre.fs[LocalTree(host, source)][p].mtime
                 = SKEW_ALLOWANCE_SECONDS
          /\ fs[CentralTree(source)][p].content
                 = pre.fs[LocalTree(host, source)][p].content
          /\ fs[LocalTree(host, source)][NewName(p)].content
                 = pre.fs[CentralTree(source)][p].content

\* C21: one cycle converges the two trees.  When a live push-then-pull cycle
\* of an endpoint is complete, the endpoint's local tree and its central
\* subtree hold the same relative paths (the backups made during the cycle
\* among them) and the same content at every path.
OneCycleConverges ==
    CycleDone =>
        /\ DOMAIN fs[LocalTree(host, source)] = DOMAIN fs[CentralTree(source)]
        /\ \A p \in DOMAIN fs[LocalTree(host, source)]
                      \cap DOMAIN fs[CentralTree(source)] :
              fs[LocalTree(host, source)][p].content
                  = fs[CentralTree(source)][p].content

====
